---- MODULE Spec2Model ----
(***************************************************************************)
(* A model of enscons: the metadata record builder with its requirement    *)
(* expander (src/enscons/util.py, src/enscons/__init__.py), the tag        *)
(* resolver and the wheel archive assembler.                               *)
(*                                                                         *)
(* Text (Python str and bytes) is a sequence of one-character strings, so  *)
(* that splitting, searching, regular-expression substitution and          *)
(* formatting are computed character by character as the code does.        *)
(* Dictionary keys that are literals of the code ("name", "WHEEL_TAG")     *)
(* are TLA+ strings.  A Python dict, which iterates in insertion order,    *)
(* is a sequence of <<key, value>> pairs with distinct keys.               *)
(***************************************************************************)
EXTENDS Integers, Sequences, FiniteSets, TLC

(***************************************************************************)
(* Text helpers                                                            *)
(***************************************************************************)
UpperSeq == <<"A","B","C","D","E","F","G","H","I","J","K","L","M","N","O","P","Q","R","S","T","U","V","W","X","Y","Z">>
LowerSeq == <<"a","b","c","d","e","f","g","h","i","j","k","l","m","n","o","p","q","r","s","t","u","v","w","x","y","z">>
DigitSeq == <<"0","1","2","3","4","5","6","7","8","9">>

Range(s) == {s[i] : i \in DOMAIN s}

Alnum == Range(UpperSeq) \cup Range(LowerSeq) \cup Range(DigitSeq)

\* LowerChar exchanging the cases, as str.swapcase() does
SwapCaseChar(c) ==
    IF c \in Range(UpperSeq)
    THEN LowerSeq[CHOOSE i \in DOMAIN UpperSeq : UpperSeq[i] = c]
    ELSE IF c \in Range(LowerSeq)
    THEN UpperSeq[CHOOSE i \in DOMAIN LowerSeq : LowerSeq[i] = c]
    ELSE c

\* str.lower() on one character
LowerChar(c) ==
    IF c \in Range(UpperSeq)
    THEN LowerSeq[CHOOSE i \in DOMAIN UpperSeq : UpperSeq[i] = c]
    ELSE c

\* str.lower()
Lower(s) == [i \in DOMAIN s |-> LowerChar(s[i])]

\* str.find(c) + 1 for a one-character c: the first index of c in s, 0 if none
Find(s, c) ==
    IF c \in Range(s) THEN CHOOSE i \in DOMAIN s : s[i] = c /\ \A j \in 1..(i-1) : s[j] # c
    ELSE 0

\* str.rfind(c) + 1
RFind(s, c) ==
    IF c \in Range(s) THEN CHOOSE i \in DOMAIN s : s[i] = c /\ \A j \in (i+1)..Len(s) : s[j] # c
    ELSE 0

\* pat in s
Contains(s, pat) ==
    \E i \in 0..(Len(s) - Len(pat)) : SubSeq(s, i + 1, i + Len(pat)) = pat

\* s.startswith(pre), s.endswith(suf)
StartsWith(s, pre) == Len(pre) <= Len(s) /\ SubSeq(s, 1, Len(pre)) = pre
EndsWith(s, suf) == Len(suf) <= Len(s) /\ SubSeq(s, Len(s) - Len(suf) + 1, Len(s)) = suf

\* s[i:] with a 1-based i
From(s, i) == SubSeq(s, i, Len(s))

\* sep.join(parts)
RECURSIVE Join(_, _)
Join(sep, parts) ==
    IF parts = <<>> THEN <<>>
    ELSE IF Len(parts) = 1 THEN parts[1]
    ELSE parts[1] \o sep \o Join(sep, Tail(parts))

\* s.replace(c, rep) for a one-character c
RECURSIVE ReplaceChar(_, _, _)
ReplaceChar(s, c, rep) ==
    IF s = <<>> THEN <<>>
    ELSE (IF Head(s) = c THEN rep ELSE <<Head(s)>>) \o ReplaceChar(Tail(s), c, rep)

\* s.strip() of blanks
Strip(s) ==
    LET kept == {i \in DOMAIN s : s[i] # " "}
    IN  IF kept = {} THEN <<>>
        ELSE SubSeq(s, CHOOSE i \in kept : \A j \in kept : i <= j,
                       CHOOSE i \in kept : \A j \in kept : j <= i)

\* the longest prefix of s made of characters of ok, and what follows it
RECURSIVE SpanLen(_, _)
SpanLen(s, ok) == IF s # <<>> /\ Head(s) \in ok THEN 1 + SpanLen(Tail(s), ok) ELSE 0

\* re.sub('[^ok]+', rep, s): every maximal run of characters outside ok
\* becomes one rep
RECURSIVE SubRuns(_, _, _)
SubRuns(s, ok, rep) ==
    IF s = <<>> THEN <<>>
    ELSE IF Head(s) \in ok THEN <<Head(s)>> \o SubRuns(Tail(s), ok, rep)
    ELSE LET bad == SpanLen(s, Range(s) \ ok)
         IN  rep \o SubRuns(From(s, bad + 1), ok, rep)

\* str.splitlines() on "\n"
RECURSIVE SplitLines(_)
SplitLines(s) ==
    IF s = <<>> THEN <<>>
    ELSE LET i == Find(s, "\n")
         IN  IF i = 0 THEN <<s>>
             ELSE <<SubSeq(s, 1, i - 1)>> \o SplitLines(From(s, i + 1))

(***************************************************************************)
(* Identifier normalizer (src/enscons/util.py)                             *)
(***************************************************************************)
safe_name(name) == SubRuns(name, Alnum \cup {"."}, <<"-">>)

safe_extra(extra) == Lower(SubRuns(extra, Alnum \cup {".", "-"}, <<"_">>))

to_filename(name) == ReplaceChar(name, "-", <<"_">>)

normalize_package(name) == to_filename(safe_name(name))

(***************************************************************************)
(* Insertion-ordered dictionaries                                          *)
(***************************************************************************)
\* d[k] = v: an existing key keeps its position, a new key goes last
DictSet(d, k, v) ==
    IF \E i \in DOMAIN d : d[i][1] = k
    THEN [i \in DOMAIN d |-> IF d[i][1] = k THEN <<k, v>> ELSE d[i]]
    ELSE Append(d, <<k, v>>)

\* d.update(other)
RECURSIVE DictUpdate(_, _)
DictUpdate(d, other) ==
    IF other = <<>> THEN d
    ELSE DictUpdate(DictSet(d, other[1][1], other[1][2]), Tail(other))

\* metadata.get(k, default) on a descriptor, a function on the keys present
Get(m, k, default) == IF k \in DOMAIN m THEN m[k] ELSE default

(***************************************************************************)
(* State                                                                   *)
(***************************************************************************)
VARIABLES
    pyproject,  \* pyproject.toml as parsed: a function on the tables it has
    env,        \* the SCons Environment: a function on the keys that are set
    files,      \* the text files on disk: path -> content
    archives,   \* the zip archives on disk: path -> the members, in the order written
    sconstruct, \* the calls on env the project's SConstruct still has to make
    scons,      \* what the SConstruct has declared: builders (InstallAs and Command
                \* targets, in declaration order), zips (Zip targets with their
                \* post-actions) and aliases (each with its sources and action),
                \* the targets it has collected from its Whl calls, and
                \* whether zipfile.ZipInfo.from_file has been patched
    build,      \* the run of SCons under api._run: its phase, the alias asked for,
                \* the steps the dependency graph orders (plan), the next one (pc)
                \* and the name _run returns (ret)
    mb,         \* the running metadata_builder call: its position, full_requires,
                \* the position of the generate_requirements generator it iterates
                \* (group gi, di requirements of it done, hdr once the group's
                \* prologue has run) and what the generator has yielded so far
    last        \* the last call of the enscons API: which, and whether it returned
                \* (ok) or raised

vars == <<pyproject, env, files, archives, sconstruct, scons, build, mb, last>>

(***************************************************************************)
(* Requirement expander (src/enscons/util.py)                              *)
(***************************************************************************)
\* packaging's Requirement(dependency) on the subset "name[specifier][; marker]":
\* the parsed requirement, or valid = FALSE where the parser raises
\* InvalidRequirement.  A marker is kept as the text str(marker) gives.
Requirement(dependency) ==
    LET semi == Find(dependency, ";")
        head == IF semi = 0 THEN dependency ELSE SubSeq(dependency, 1, semi - 1)
        SpecOps == {"<", ">", "=", "!", "~"}
        n == SpanLen(head, Alnum \cup {".", "_", "-"})
        spec == Strip(From(head, n + 1))
        marker == IF semi = 0 THEN <<>> ELSE Strip(From(dependency, semi + 1))
        valid == /\ n > 0
                 /\ spec = <<>> \/ (spec[1] \in SpecOps /\ Range(spec) \subseteq Alnum \cup {".", "*", ","} \cup SpecOps)
                 /\ semi = 0 \/ marker # <<>>
    IN  IF valid
        THEN [valid |-> TRUE, name |-> SubSeq(head, 1, n), specifier |-> spec, marker |-> marker]
        ELSE [valid |-> FALSE]

\* str(requirement)
RequirementStr(req) ==
    req.name \o req.specifier \o (IF req.marker # <<>> THEN <<";"," ">> \o req.marker ELSE <<>>)

ProvidesExtra == <<"P","r","o","v","i","d","e","s","-","E","x","t","r","a">>
RequiresDist == <<"R","e","q","u","i","r","e","s","-","D","i","s","t">>

\* lines 76-80: the normalized extra a group key names
GroupExtra(key) ==
    LET colon == Find(key, ":")
    IN  safe_extra(IF colon = 0 THEN key ELSE SubSeq(key, 1, colon - 1))

\* GroupCondition with lines 84-85 under an else: a group with a condition
\* gets the condition alone
GroupConditionAlone(key) ==
    LET colon == Find(key, ":")
    IN  IF colon # 0 /\ From(key, colon + 1) # <<>> THEN From(key, colon + 1)
        ELSE IF GroupExtra(key) # <<>> THEN <<"e","x","t","r","a"," ","=","="," ","'">> \o GroupExtra(key) \o <<"'">>
        ELSE <<>>

\* lines 75-85: the condition every requirement of the group gets
GroupCondition(key) ==
    LET colon == Find(key, ":")
        condition == IF colon = 0 THEN <<>> ELSE From(key, colon + 1)
        extra == GroupExtra(key)
    IN  IF extra # <<>>
        THEN (IF condition # <<>> THEN <<"(">> \o condition \o <<")"," ","a","n","d"," ">> ELSE <<>>)
             \o <<"e","x","t","r","a"," ","=","="," ","'">> \o extra \o <<"'">>
        ELSE condition

\* lines 89-94: the requirement with the group's condition merged into its marker
MergeMarker(new_req, condition) ==
    IF condition # <<>>
    THEN [new_req EXCEPT !.marker =
             IF @ # <<>> THEN <<"(">> \o @ \o <<")"," ","a","n","d"," ">> \o condition ELSE condition]
    ELSE new_req

(***************************************************************************)
(* Metadata record builder (src/enscons/__init__.py)                       *)
(***************************************************************************)
\* The outcome of a run of writes: the text written, and whether the run
\* completed (ok) or raised after writing it.
Wrote(text) == [ok |-> TRUE, text |-> text]
Raised == [ok |-> FALSE, text |-> <<>>]

\* statements run in order until the first that raises
RECURSIVE InOrder(_)
InOrder(steps) ==
    IF steps = <<>> THEN Wrote(<<>>)
    ELSE IF ~steps[1].ok THEN steps[1]
    ELSE LET rest == InOrder(Tail(steps))
         IN  [ok |-> rest.ok, text |-> steps[1].text \o rest.text]

\* _read_file(filename) gives files[filename], and raises where the file is
\* not in DOMAIN files.

\* a multi-line value: the lines after the first are indented
RECURSIVE Continuation(_)
Continuation(lines) ==
    IF lines = <<>> THEN <<>>
    ELSE <<" "," ">> \o lines[1] \o <<"\n">> \o Continuation(Tail(lines))

_write_header(name, value) ==
    LET split == SplitLines(value)
        lines == IF split = <<>> THEN << <<>> >> ELSE split
    IN  name \o <<":"," ">> \o lines[1] \o <<"\n">> \o Continuation(Tail(lines))

\* an optional header whose value is a string
Optional(m, key, name) ==
    IF key \in DOMAIN m THEN Wrote(_write_header(name, m[key])) ELSE Wrote(<<>>)

\* A descriptor value that is a string in one shape and a table or a list in
\* another (license, readme, keywords, an entry-point group) is a function on
\* the keys it has; a plain string s is [str |-> s], a list l is [list |-> l].

License(m) ==
    IF "license" \notin DOMAIN m THEN Wrote(<<>>)
    ELSE LET l == m["license"]
         IN  IF "str" \in DOMAIN l THEN Wrote(_write_header(<<"L","i","c","e","n","s","e">>, l["str"]))
             ELSE IF "text" \in DOMAIN l THEN Wrote(_write_header(<<"L","i","c","e","n","s","e">>, l["text"]))
             ELSE IF "file" \in DOMAIN l /\ l["file"] \in DOMAIN files
                  THEN Wrote(_write_header(<<"L","i","c","e","n","s","e">>, files[l["file"]]))
             ELSE Raised

\* one contact of _write_contacts' joined line; it raises KeyError on a
\* contact with neither a name nor an email
Contact(c) ==
    IF "name" \notin DOMAIN c
    THEN (IF "email" \in DOMAIN c THEN Wrote(c["email"]) ELSE Raised)
    ELSE IF "email" \notin DOMAIN c THEN Wrote(c["name"])
    ELSE Wrote(c["name"] \o <<" ","<">> \o c["email"] \o <<">">>)

RECURSIVE JoinContacts(_)
JoinContacts(contacts) ==
    IF contacts = <<>> THEN Wrote(<<>>)
    ELSE LET first == Contact(contacts[1])
         IN  IF ~first.ok THEN Raised
             ELSE IF Len(contacts) = 1 THEN first
             ELSE LET rest == JoinContacts(Tail(contacts))
                  IN  IF rest.ok THEN Wrote(first.text \o <<","," ">> \o rest.text) ELSE Raised

_write_contacts(header_name, header_email, contacts) ==
    IF Len(contacts) = 1
    THEN InOrder(<< Optional(contacts[1], "name", header_name),
                    Optional(contacts[1], "email", header_email) >>)
    ELSE LET value == JoinContacts(contacts)
             emails == \E i \in DOMAIN contacts : "email" \in DOMAIN contacts[i]
         IN  IF value.ok
             THEN Wrote(_write_header(IF emails THEN header_email ELSE header_name, value.text))
             ELSE Raised

Authors(m) ==
    IF "authors" \in DOMAIN m
    THEN _write_contacts(<<"A","u","t","h","o","r">>, <<"A","u","t","h","o","r","-","e","m","a","i","l">>, m["authors"])
    ELSE InOrder(<< Optional(m, "author", <<"A","u","t","h","o","r">>),
                    Optional(m, "author_email", <<"A","u","t","h","o","r","-","e","m","a","i","l">>) >>)

Maintainers(m) ==
    IF "maintainers" \in DOMAIN m
    THEN _write_contacts(<<"M","a","i","n","t","a","i","n","e","r">>, <<"M","a","i","n","t","a","i","n","e","r","-","e","m","a","i","l">>, m["maintainers"])
    ELSE Wrote(<<>>)

\* keywords: a string, or a list joined by ","
Keywords(m) ==
    IF "keywords" \notin DOMAIN m THEN Wrote(<<>>)
    ELSE LET k == m["keywords"]
         IN  Wrote(_write_header(<<"K","e","y","w","o","r","d","s">>, IF "str" \in DOMAIN k THEN k["str"] ELSE Join(<<",">>, k["list"])))

RECURSIVE Classifiers(_)
Classifiers(cs) ==
    IF cs = <<>> THEN <<>>
    ELSE _write_header(<<"C","l","a","s","s","i","f","i","e","r">>, cs[1]) \o Classifiers(Tail(cs))

RECURSIVE ProjectUrls(_)
ProjectUrls(urls) ==
    IF urls = <<>> THEN <<>>
    ELSE _write_header(<<"P","r","o","j","e","c","t","-","U","R","L">>, urls[1][1] \o <<","," ">> \o urls[1][2]) \o ProjectUrls(Tail(urls))

\* lines 273-322: the headers before the dependency records
Headers(m) ==
    InOrder(<<
        Wrote(<<"M","e","t","a","d","a","t","a","-","V","e","r","s","i","o","n",":"," ","2",".","1","\n">>),
        IF "name" \in DOMAIN m THEN Wrote(<<"N","a","m","e",":"," ">> \o m["name"] \o <<"\n">>) ELSE Raised,
        IF "version" \in DOMAIN m THEN Wrote(<<"V","e","r","s","i","o","n",":"," ">> \o m["version"] \o <<"\n">>) ELSE Raised,
        Optional(m, "description", <<"S","u","m","m","a","r","y">>),
        Optional(m, "requires-python", <<"R","e","q","u","i","r","e","s","-","P","y","t","h","o","n">>),
        License(m),
        Authors(m),
        Maintainers(m),
        Keywords(m),
        Wrote(Classifiers(Get(m, "classifiers", <<>>))),
        Optional(m, "url", <<"H","o","m","e","-","P","a","g","e">>),
        Wrote(ProjectUrls(Get(m, "urls", <<>>))),
        Optional(m, "platform", <<"P","l","a","t","f","o","r","m">>)
    >>)

\* lines 323-330 (and requires_txt_builder's 161-168): the merged mapping
FullRequires(m) ==
    LET extras == DictUpdate(DictUpdate(<<>>, Get(m, "extras_require", <<>>)),
                             Get(m, "optional-dependencies", <<>>))
        install == IF "install_requires" \in DOMAIN m
                   THEN DictSet(extras, <<>>, m["install_requires"]) ELSE extras
    IN  IF "dependencies" \in DOMAIN m
        THEN DictSet(install, <<>>, m["dependencies"]) ELSE install

\* lines 348-358: the content type a file name's extension gives
InferContentType(filename) ==
    LET lowername == Lower(filename)
    IN  IF EndsWith(lowername, <<".","r","s","t">>) THEN <<"t","e","x","t","/","x","-","r","s","t">>
        ELSE IF EndsWith(lowername, <<".","m","d">>) THEN <<"t","e","x","t","/","m","a","r","k","d","o","w","n">>
        ELSE IF EndsWith(lowername, <<".","t","x","t">>) THEN <<"t","e","x","t","/","p","l","a","i","n">>
        ELSE <<>>

\* lines 359-362
Body(contenttype, content) ==
    (IF contenttype # <<>> THEN _write_header(<<"D","e","s","c","r","i","p","t","i","o","n","-","C","o","n","t","e","n","t","-","T","y","p","e">>, contenttype) ELSE <<>>)
    \o <<"\n","\n">> \o content

\* lines 333-366: the long description
Description(m) ==
    IF "readme" \in DOMAIN m
    THEN LET r == m["readme"]
         IN  IF "str" \in DOMAIN r
             THEN (IF r["str"] \in DOMAIN files
                   THEN Wrote(Body(InferContentType(r["str"]), files[r["str"]])) ELSE Raised)
             ELSE IF "file" \in DOMAIN r
             THEN (IF r["file"] \in DOMAIN files
                   THEN Wrote(Body(IF "content-type" \in DOMAIN r THEN r["content-type"]
                                   ELSE InferContentType(r["file"]),
                                   files[r["file"]]))
                   ELSE Raised)
             ELSE IF "text" \in DOMAIN r
             THEN Wrote(Body(Get(r, "content-type", <<>>), r["text"]))
             ELSE Raised
    ELSE IF "description_file" \in DOMAIN m
    THEN (IF m["description_file"] \in DOMAIN files
          THEN Wrote(<<"\n","\n">> \o files[m["description_file"]]) ELSE Raised)
    ELSE Wrote(<<>>)

(***************************************************************************)
(* Ordering of text: sorted() compares strings by code point               *)
(***************************************************************************)
\* the printable characters in code-point order (without the backslash and
\* the backquote, which no text of the model holds)
Ascii == <<" ","!","\"","#","$","%","&","'","(",")","*","+",",","-",".","/","0","1","2","3","4","5","6","7","8","9",":",";","<","=",">","?","@","A","B","C","D","E","F","G","H","I","J","K","L","M","N","O","P","Q","R","S","T","U","V","W","X","Y","Z","[","]","^","_","a","b","c","d","e","f","g","h","i","j","k","l","m","n","o","p","q","r","s","t","u","v","w","x","y","z","{","|","}","~">>

\* the rank of c in code-point order; "\n" sorts before the printable characters
Ord(c) == IF c \in Range(Ascii) THEN CHOOSE i \in DOMAIN Ascii : Ascii[i] = c ELSE 0

\* a < b
RECURSIVE Less(_, _)
Less(a, b) ==
    IF b = <<>> THEN FALSE
    ELSE IF a = <<>> THEN TRUE
    ELSE IF Head(a) = Head(b) THEN Less(Tail(a), Tail(b))
    ELSE Ord(Head(a)) < Ord(Head(b))

\* sorted(d.items()) for a dict d: its pairs by ascending key
RECURSIVE SortedItems(_)
SortedItems(d) ==
    IF d = <<>> THEN <<>>
    ELSE LET i == CHOOSE i \in DOMAIN d : \A j \in DOMAIN d : ~Less(d[j][1], d[i][1])
         IN  <<d[i]>> \o SortedItems([k \in 1..(Len(d) - 1) |-> IF k < i THEN d[k] ELSE d[k + 1]])

\* str(n) for n >= 0
RECURSIVE IntStr(_)
IntStr(n) == IF n < 10 THEN <<DigitSeq[n + 1]>> ELSE IntStr(n \div 10) \o <<DigitSeq[(n % 10) + 1]>>

(***************************************************************************)
(* Paths (os.path)                                                         *)
(***************************************************************************)
\* os.path.join(a, b) for a relative b
PathJoin(a, b) ==
    IF a = <<>> THEN b
    ELSE IF a[Len(a)] = "/" THEN a \o b
    ELSE a \o <<"/">> \o b

\* os.path.split(p)[0] and [1], os.path.basename(p)
DirName(p) == LET i == RFind(p, "/") IN IF i <= 1 THEN SubSeq(p, 1, i) ELSE SubSeq(p, 1, i - 1)
BaseName(p) == From(p, RFind(p, "/") + 1)

\* os.path.relpath(p, start) for normalized relative paths, p at or under
\* start (start = <<>> is the current directory)
RelPath(p, start) ==
    IF start = <<>> THEN p
    ELSE IF StartsWith(p, start \o <<"/">>) THEN From(p, Len(start) + 2)
    ELSE <<".",".","/">> \o p

\* p is dir or lies under it
Under(p, dir) == p = dir \/ StartsWith(p, dir \o <<"/">>)

(***************************************************************************)
(* The Environment                                                         *)
(***************************************************************************)
\* env[k] = v
SetKey(e, k, v) == (k :> v) @@ e

\* the outcome of a call that works on env: the env it leaves, and whether
\* it returned (ok, with ret) or raised after changing env that far
Returns(e, r) == [ok |-> TRUE, env |-> e, ret |-> r]
Raises(e) == [ok |-> FALSE, env |-> e, ret |-> <<>>]

\* the host's interpreter, ABI and platform tags (packaging.tags, wheel.bdist_wheel)
HostInterpreter == <<"c","p","3","1","1">>
HostAbi == <<"c","p","3","1","1">>
HostPlatform == <<"l","i","n","u","x","_","x","8","6","_","6","4">>

(***************************************************************************)
(* Tag resolver                                                            *)
(***************************************************************************)
get_binary_tag == Join(<<"-">>, <<HostInterpreter, HostAbi, HostPlatform>>)

\* LIMITED_API_TARGET is [kind |-> "tuple" or "list", items |-> the numbers]
\* The check of lines 438-447 without the minor of line 444
AbiTargetValidMajor(target) ==
    /\ target.kind = "tuple" /\ Len(target.items) = 2
    /\ target.items[1] = 3

\* lines 438-447: whether the target passes the checks, or get_tag raises
AbiTargetValid(target) ==
    /\ target.kind = "tuple" /\ Len(target.items) = 2
    /\ ~(target.items[1] # 3 \/ target.items[2] < 2)

AbiTargetImpl(target) == <<"c","p">> \o IntStr(target.items[1]) \o IntStr(target.items[2])

get_tag(e) ==
    IF "ROOT_IS_PURELIB" \notin DOMAIN e THEN Raises(e)
    ELSE IF ~e["ROOT_IS_PURELIB"]
    THEN IF "WHEEL_PATH" \notin DOMAIN e THEN Raises(e)
         ELSE IF "LIMITED_API_TARGET" \in DOMAIN e
         THEN IF AbiTargetValid(e["LIMITED_API_TARGET"])
              THEN LET tag == Join(<<"-">>, <<AbiTargetImpl(e["LIMITED_API_TARGET"]), <<"a","b","i","3">>, HostPlatform>>)
                   IN  Returns(SetKey(e, "WHEEL_TAG", tag), tag)
              ELSE Raises(e)
         ELSE LET tag == Join(<<"-">>, <<HostInterpreter, Lower(HostAbi), HostPlatform>>)
              IN  Returns(SetKey(e, "WHEEL_TAG", tag), tag)
    ELSE Returns(SetKey(e, "WHEEL_TAG", <<"p","y","3","-","n","o","n","e","-","a","n","y">>), <<"p","y","3","-","n","o","n","e","-","a","n","y">>)

(***************************************************************************)
(* enscons_defaults and init_wheel                                         *)
(***************************************************************************)
\* scm is what versioningit's get_version gives: [ok |-> FALSE] when it raises

\* lines 755-758
DefaultsEggInfoPath(e) ==
    Returns(SetKey(e, "EGG_INFO_PATH",
                   IF e["EGG_INFO_PREFIX"] # <<>>
                   THEN PathJoin(e["EGG_INFO_PREFIX"], e["PACKAGE_NAME_SAFE"] \o <<".","e","g","g","-","i","n","f","o">>)
                   ELSE e["PACKAGE_NAME_SAFE"] \o <<".","e","g","g","-","i","n","f","o">>), <<>>)

\* lines 749-751
DefaultsEggInfo(e) ==
    DefaultsEggInfoPath(
        IF e["EGG_INFO_PREFIX"] = <<>> /\ Get(e["PACKAGE_METADATA"], "src_root", <<>>) # <<>>
        THEN SetKey(e, "EGG_INFO_PREFIX", e["PACKAGE_METADATA"]["src_root"])
        ELSE e)

\* line 745: the version goes into the descriptor too, which is one object:
\* PACKAGE_PYPROJECT["project"] is PACKAGE_METADATA unless the latter was preset
DefaultsScmVersion(e, preset, version) ==
    SetKey(SetKey(IF preset THEN e
                  ELSE SetKey(e, "PACKAGE_PYPROJECT",
                              SetKey(e["PACKAGE_PYPROJECT"], "project",
                                     SetKey(e["PACKAGE_METADATA"], "version", version))),
                  "PACKAGE_METADATA", SetKey(e["PACKAGE_METADATA"], "version", version)),
           "PACKAGE_VERSION", version)

\* lines 740-747
DefaultsVersion(e, preset, scm) ==
    IF "version" \in DOMAIN e["PACKAGE_METADATA"]
    THEN DefaultsEggInfo(SetKey(e, "PACKAGE_VERSION", e["PACKAGE_METADATA"]["version"]))
    ELSE IF ~scm.ok THEN Raises(e)
    ELSE DefaultsEggInfo(DefaultsScmVersion(e, preset, scm.version))

\* lines 738-739
DefaultsName(e, preset, scm) ==
    IF "name" \notin DOMAIN e["PACKAGE_METADATA"] THEN Raises(e)
    ELSE DefaultsVersion(
            SetKey(SetKey(e, "PACKAGE_NAME", e["PACKAGE_METADATA"]["name"]),
                   "PACKAGE_NAME_SAFE", normalize_package(e["PACKAGE_METADATA"]["name"])),
            preset, scm)

\* lines 733-736
DefaultsMetadata(e, preset, scm) ==
    IF preset THEN DefaultsName(e, preset, scm)
    ELSE IF "project" \notin DOMAIN e["PACKAGE_PYPROJECT"] THEN Raises(e)
    ELSE DefaultsName(SetKey(e, "PACKAGE_METADATA", e["PACKAGE_PYPROJECT"]["project"]), preset, scm)

\* lines 728-758: the package identity, from the descriptor
DefaultsPackage(e, scm) ==
    DefaultsMetadata(IF "PACKAGE_PYPROJECT" \in DOMAIN e THEN e
                     ELSE SetKey(e, "PACKAGE_PYPROJECT", pyproject),
                     "PACKAGE_METADATA" \in DOMAIN e, scm)

\* lines 724-726: --egg-base, --wheel-dir and --dist-dir are not given, so
\* GetOption gives None and the "or" defaults apply
DefaultsOptions(e) ==
    SetKey(SetKey(SetKey(e, "EGG_INFO_PREFIX", <<>>), "WHEEL_DIR", <<"d","i","s","t">>),
           "DIST_BASE", <<"d","i","s","t">>)

\* lines 719-722
DefaultsTag(e) ==
    IF "WHEEL_TAG" \in DOMAIN e THEN e ELSE SetKey(e, "WHEEL_TAG", get_binary_tag)

\* lines 714-717, where WHEEL_TAG is set
DefaultsPurelib(e) ==
    IF "ROOT_IS_PURELIB" \in DOMAIN e THEN e
    ELSE SetKey(e, "ROOT_IS_PURELIB", EndsWith(e["WHEEL_TAG"], <<"n","o","n","e","-","a","n","y">>))

enscons_defaults(e, scm) ==
    IF "_ENSCONS_DEFAULTS" \in DOMAIN e THEN Returns(e, <<>>)
    ELSE IF "ROOT_IS_PURELIB" \notin DOMAIN e /\ "WHEEL_TAG" \notin DOMAIN e
    THEN Raises(SetKey(e, "_ENSCONS_DEFAULTS", TRUE))
    ELSE DefaultsPackage(
            DefaultsOptions(DefaultsTag(DefaultsPurelib(SetKey(e, "_ENSCONS_DEFAULTS", TRUE)))),
            scm)

(***************************************************************************)
(* Declarations made while the SConstruct runs                             *)
(***************************************************************************)
\* env.Command, env.InstallAs, env.Install: a target with the action that
\* builds it; declaring a target again gives the node it already has
Declare(g, target, action, source) ==
    IF \E i \in DOMAIN g.builders : g.builders[i].target = target THEN g
    ELSE [g EXCEPT !.builders = Append(@, [target |-> target, action |-> action, source |-> source])]

\* env.Zip(target, source, ZIPROOT)
DeclareZip(g, target, source, ziproot) ==
    [g EXCEPT !.zips = SetKey(@, target, [source |-> source, ziproot |-> ziproot, post |-> <<>>])]

\* env.AddPostAction(target, action): after the actions the target has
AddPostAction(g, target, action) ==
    [g EXCEPT !.zips = SetKey(@, target, [@[target] EXCEPT !.post = Append(@, action)])]

\* the alias as it is declared so far
Aliased(g, name) ==
    IF name \in DOMAIN g.aliases THEN g.aliases[name] ELSE [sources |-> <<>>, action |-> ""]

\* env.Alias(name, source, action): the alias keeps the sources it has and
\* gets the new one after them; it keeps its action when none is given
Alias(g, name, source, action) ==
    [g EXCEPT !.aliases = SetKey(@, name,
        [sources |-> IF source \in Range(Aliased(g, name).sources) THEN Aliased(g, name).sources
                     ELSE Append(Aliased(g, name).sources, source),
         action |-> IF action # "" THEN action ELSE Aliased(g, name).action])]

\* the three control files of the dist-info directory
MetadataTargets(e) ==
    << PathJoin(e["DIST_INFO_PATH"], <<"M","E","T","A","D","A","T","A">>),
       PathJoin(e["DIST_INFO_PATH"], <<"W","H","E","E","L">>),
       PathJoin(e["DIST_INFO_PATH"], <<"e","n","t","r","y","_","p","o","i","n","t","s",".","t","x","t">>) >>

\* lines 495-511
wheel_metadata(e, g) ==
    [scons |-> Declare(Declare(Declare(g,
                    MetadataTargets(e)[1], "metadata_builder", <<>>),
                    MetadataTargets(e)[2], "wheelmeta_builder", <<>>),
                    MetadataTargets(e)[3], "entry_points_builder", <<>>),
     targets |-> MetadataTargets(e)]

\* lines 546-549: where the editable archive is written
EditableFile(e) ==
    PathJoin(e["WHEEL_DIR"],
             Join(<<"-">>, <<e["PACKAGE_NAMEVER"], <<"e","d",".">> \o e["WHEEL_TAG"]>>) \o <<".","w","h","l">>)

\* DeclareEditable with lines 557 and 558 exchanged
DeclareEditableManifestFirst(e, g) ==
    AddPostAction(AddPostAction(
        Alias(DeclareZip(g, EditableFile(e), <<e["DIST_INFO_PATH"]>>, e["WHEEL_PATH"]),
              "editable", EditableFile(e), ""),
        EditableFile(e), "add_manifest"),
        EditableFile(e), "add_editable")

\* lines 550-558: the editable archive and its two post-actions, in the
\* order the code adds them
DeclareEditable(e, g) ==
    AddPostAction(AddPostAction(
        Alias(DeclareZip(g, EditableFile(e), <<e["DIST_INFO_PATH"]>>, e["WHEEL_PATH"]),
              "editable", EditableFile(e), ""),
        EditableFile(e), "add_editable"),
        EditableFile(e), "add_manifest")

\* lines 518-520
InitWheelNamever(e) ==
    SetKey(e, "PACKAGE_NAMEVER", Join(<<"-">>, <<e["PACKAGE_NAME_SAFE"], e["PACKAGE_VERSION"]>>))

\* lines 526-527
InitWheelPath(e) ==
    SetKey(SetKey(e, "WHEEL_PATH", Get(e, "WHEEL_PATH", <<"b","u","i","l","d","/","w","h","e","e","l">>)),
           "DIST_INFO_NAME", e["PACKAGE_NAMEVER"] \o <<".","d","i","s","t","-","i","n","f","o">>)

\* lines 529-534
InitWheelDirs(e) ==
    SetKey(SetKey(e, "DIST_INFO_PATH", PathJoin(e["WHEEL_PATH"],
                    e["PACKAGE_NAME_SAFE"] \o <<"-">> \o e["PACKAGE_VERSION"] \o <<".","d","i","s","t","-","i","n","f","o">>)),
           "WHEEL_DATA_PATH", PathJoin(e["WHEEL_PATH"],
                    e["PACKAGE_NAME_SAFE"] \o <<"-">> \o e["PACKAGE_VERSION"] \o <<".","d","a","t","a">>))

\* lines 522-523, 540: the file name is made of the tag env has now
InitWheelFile(e) ==
    SetKey(e, "WHEEL_FILE",
           PathJoin(e["WHEEL_DIR"], Join(<<"-">>, <<e["PACKAGE_NAMEVER"], e["WHEEL_TAG"]>>) \o <<".","w","h","l">>))

\* lines 518-540: what init_wheel sets in env
InitWheelEnv(e) == InitWheelFile(InitWheelDirs(InitWheelPath(InitWheelNamever(e))))

\* lines 537-538
DeclareDistInfo(e, g) ==
    Alias(Declare(g, PathJoin(e["WHEEL_DIR"], BaseName(e["DIST_INFO_PATH"])), "Install", e["DIST_INFO_PATH"]),
          "dist_info", PathJoin(e["WHEEL_DIR"], BaseName(e["DIST_INFO_PATH"])), "")

\* lines 560-566: the dist-info directory of the editable archive
DeclareEditableDistInfo(e, g) ==
    Declare(Declare(g, <<"b","u","i","l","d","/","e","d","i","t","a","b","l","e","/">> \o e["PACKAGE_NAMEVER"] \o <<".","d","i","s","t","-","i","n","f","o">>,
                    "Copy", e["DIST_INFO_PATH"]),
            PathJoin(<<"b","u","i","l","d","/","e","d","i","t","a","b","l","e","/">> \o e["PACKAGE_NAMEVER"] \o <<".","d","i","s","t","-","i","n","f","o">>, <<"M","E","T","A","D","A","T","A">>),
            "metadata_builder", <<>>)

\* lines 543-568, with meta what wheel_metadata gave
InitWheelDeclare(e, meta) ==
    [ok |-> TRUE, env |-> e, ret |-> meta.targets,
     scons |-> DeclareEditableDistInfo(e, DeclareEditable(e, meta.scons))]

\* init_wheel: [ok, env, scons, ret], ret the targets of wheel_metadata
init_wheel(e, g) ==
    IF ~({"PACKAGE_NAME_SAFE", "PACKAGE_VERSION"} \subseteq DOMAIN e)
    THEN [ok |-> FALSE, env |-> e, scons |-> g, ret |-> <<>>]
    ELSE IF ~({"WHEEL_TAG", "WHEEL_DIR"} \subseteq DOMAIN e)
    THEN [ok |-> FALSE, scons |-> g, ret |-> <<>>, env |-> InitWheelNamever(e)]
    ELSE InitWheelDeclare(InitWheelEnv(e), wheel_metadata(InitWheelEnv(e), DeclareDistInfo(InitWheelEnv(e), g)))

\* WhlTargetDir with purelib as the root category of every build
WhlTargetDirPurelib(e, category) ==
    IF category = <<"p","u","r","e","l","i","b">>
    THEN e["WHEEL_PATH"]
    ELSE PathJoin(e["WHEEL_DATA_PATH"], category)

\* lines 588-592: the directory a category's members are installed under
WhlTargetDir(e, category) ==
    IF category = (IF e["ROOT_IS_PURELIB"] THEN <<"p","u","r","e","l","i","b">> ELSE <<"p","l","a","t","l","i","b">>)
    THEN e["WHEEL_PATH"]
    ELSE PathJoin(e["WHEEL_DATA_PATH"], category)

\* lines 594-598, with w what init_wheel gave: the member is installed under
\* its directory, by its path from root
WhlInstall(w, category, source, root) ==
    IF ~w.ok \/ "ROOT_IS_PURELIB" \notin DOMAIN w.env THEN [w EXCEPT !.ok = FALSE]
    ELSE [ok |-> TRUE, env |-> w.env,
          scons |-> Declare(w.scons, PathJoin(WhlTargetDir(w.env, category), RelPath(source, root)),
                            "InstallAs", source),
          ret |-> <<PathJoin(WhlTargetDir(w.env, category), RelPath(source, root))>> \o w.ret]

\* lines 580-586, with d what enscons_defaults gave
WhlInit(d, g, category, source, root) ==
    IF ~d.ok THEN [ok |-> FALSE, env |-> d.env, scons |-> g, ret |-> <<>>]
    ELSE WhlInstall(IF "WHEEL_FILE" \in DOMAIN d.env
                    THEN [ok |-> TRUE, env |-> d.env, scons |-> g, ret |-> <<>>]
                    ELSE init_wheel(d.env, g),
                    category, source, root)

\* Whl(env, category, source, root) for one source file: [ok, env, scons, ret]
Whl(e, g, category, source, root, scm) ==
    WhlInit(enscons_defaults(e, scm), g, category, source, root)

\* line 637: where WhlFile writes the archive
WhlFileTarget(e) == PathJoin(e["WHEEL_DIR"], e["PACKAGE_NAMEVER"] \o <<".","w","h","l">>)

\* lines 637-645: the wheel archive, its alias with the renaming action, and
\* its post-action
DeclareWheel(e, g, source) ==
    AddPostAction(
        Alias(DeclareZip(g, WhlFileTarget(e), source, e["WHEEL_PATH"]),
              "bdist_wheel", WhlFileTarget(e), "correct_wheel_tags"),
        WhlFileTarget(e), "add_manifest")

\* lines 601-621: from now on ZipInfo.from_file, which the Zip builder of
\* every archive of this process uses, gives SOURCE_EPOCH_ZIP
_patch_source_epoch(g) == [g EXCEPT !.patched = TRUE]

\* lines 635-647, with d what enscons_defaults gave
WhlFileDeclare(d, g, source) ==
    IF ~d.ok THEN [ok |-> FALSE, env |-> d.env, scons |-> g, ret |-> <<>>]
    ELSE IF ~({"WHEEL_DIR", "PACKAGE_NAMEVER", "WHEEL_PATH"} \subseteq DOMAIN d.env)
    THEN [ok |-> FALSE, env |-> d.env, scons |-> _patch_source_epoch(g), ret |-> <<>>]
    ELSE [ok |-> TRUE, env |-> d.env,
          scons |-> DeclareWheel(d.env, _patch_source_epoch(g), source),
          ret |-> WhlFileTarget(d.env)]

\* WhlFile(env, source=source): [ok, env, scons, ret]
WhlFile(e, g, source, scm) == WhlFileDeclare(enscons_defaults(e, scm), g, source)

(***************************************************************************)
(* The order SCons builds in                                               *)
(***************************************************************************)
Step(action, target, source) == [action |-> action, target |-> target, source |-> source]

\* the builders of the targets at or under each source, in source order,
\* each target once
RECURSIVE SourceSteps(_, _, _)
SourceSteps(g, sources, seen) ==
    IF sources = <<>> THEN <<>>
    ELSE LET mine == SelectSeq(g.builders,
                         LAMBDA b : Under(b.target, sources[1]) /\ b.target \notin seen
                                    /\ b.action \in {"InstallAs", "metadata_builder",
                                                     "wheelmeta_builder", "entry_points_builder"})
         IN  [i \in DOMAIN mine |-> Step(mine[i].action, mine[i].target, mine[i].source)]
             \o SourceSteps(g, Tail(sources), seen \cup {mine[i].target : i \in DOMAIN mine})

\* a Zip target: its sources, then its builder's action, then its
\* post-actions in the order they were added
ZipSteps(g, target) ==
    LET z == g.zips[target]
    IN  SourceSteps(g, z.source, {})
        \o <<Step("Zip", target, <<>>)>>
        \o [i \in DOMAIN z.post |-> Step(z.post[i], target, <<>>)]

\* an alias: its sources, then its own action
RECURSIVE AliasSourceSteps(_, _)
AliasSourceSteps(g, sources) ==
    IF sources = <<>> THEN <<>>
    ELSE (IF sources[1] \in DOMAIN g.zips THEN ZipSteps(g, sources[1])
          ELSE SourceSteps(g, <<sources[1]>>, {}))
         \o AliasSourceSteps(g, Tail(sources))

Plan(g, alias) ==
    LET a == g.aliases[alias]
    IN  AliasSourceSteps(g, a.sources)
        \o (IF a.action # "" THEN <<Step(a.action, a.sources[1], <<>>)>> ELSE <<>>)

(***************************************************************************)
(* Control files of the wheel                                              *)
(***************************************************************************)
\* lines 484-492: the text of WHEEL
WheelText(root_is_purelib, tag) ==
    <<"W","h","e","e","l","-","V","e","r","s","i","o","n",":"," ","1",".","0","\n","G","e","n","e","r","a","t","o","r",":"," ","e","n","s","c","o","n","s"," ","(","0",".","0",".","1",")","\n","R","o","o","t","-","I","s","-","P","u","r","e","l","i","b",":"," ">>
    \o (IF root_is_purelib THEN <<"t","r","u","e">> ELSE <<"f","a","l","s","e">>)
    \o <<"\n","T","a","g",":"," ">> \o tag \o <<"\n">>

\* lines 182-188: the merged entry-point groups; a group is [list |-> lines]
\* or [table |-> a dict]
EntryPoints(m) ==
    LET given == DictUpdate(<<>>, Get(m, "entry_points", <<>>))
        console == IF "scripts" \in DOMAIN m
                   THEN DictSet(given, <<"c","o","n","s","o","l","e","_","s","c","r","i","p","t","s">>, [table |-> m["scripts"]]) ELSE given
    IN  IF "gui-scripts" \in DOMAIN m
        THEN DictSet(console, <<"g","u","i","_","s","c","r","i","p","t","s">>, [table |-> m["gui-scripts"]]) ELSE console

RECURSIVE ItemLines(_)
ItemLines(items) ==
    IF items = <<>> THEN <<>>
    ELSE items[1] \o <<"\n">> \o ItemLines(Tail(items))

\* lines 190-198
RECURSIVE Sections(_)
Sections(groups) ==
    IF groups = <<>> THEN <<>>
    ELSE LET items == groups[1][2]
         IN  <<"[">> \o groups[1][1] \o <<"]","\n">>
             \o (IF "list" \in DOMAIN items THEN ItemLines(items["list"])
                 ELSE LET pairs == SortedItems(items["table"])
                      IN  ItemLines([i \in DOMAIN pairs |->
                                        pairs[i][1] \o <<" ","="," ">> \o pairs[i][2]]))
             \o Sections(Tail(groups))

EntryPointsText(m) == Sections(SortedItems(EntryPoints(m)))

(***************************************************************************)
(* Archive assembler                                                       *)
(***************************************************************************)
\* a member of an archive: what its ZipInfo says and its data; date_time is
\* SOURCE_EPOCH_ZIP, or st_mtime where it is the modification time of the
\* file the member was read from
Member(filename, date_time, data) == [filename |-> filename, date_time |-> date_time, data |-> data]

\* the orders in which a set can be enumerated
Perms(S) == {f \in [1..Cardinality(S) -> S] : \A i, j \in DOMAIN f : i # j => f[i] # f[j]}

\* the files a directory walk of the Zip builder finds: those on disk under
\* a source that is not itself a file
Walked(sources) ==
    {p \in DOMAIN files : \E i \in DOMAIN sources : sources[i] \notin DOMAIN files /\ Under(p, sources[i])}

\* every source of the Zip builder is on disk
ZipReady(sources) ==
    \A i \in DOMAIN sources :
        sources[i] \in DOMAIN files \/ \E p \in DOMAIN files : Under(p, sources[i])

\* SCons' zip builder: each source file, and each file under a source
\* directory in the order walk lists them, named relative to ZIPROOT, with
\* the date_time ZipInfo.from_file gives
RECURSIVE ZipMembers(_, _, _, _)
ZipMembers(sources, ziproot, walk, date_time) ==
    IF sources = <<>> THEN <<>>
    ELSE LET paths == IF sources[1] \in DOMAIN files THEN <<sources[1]>>
                      ELSE SelectSeq(walk, LAMBDA p : Under(p, sources[1]))
         IN  [i \in DOMAIN paths |-> Member(RelPath(paths[i], ziproot), date_time, files[paths[i]])]
             \o ZipMembers(Tail(sources), ziproot, walk, date_time)

\* lines 385-397: the members editables' EditableProject.files() gives for a
\* project with one path entry: <name>.pth holding the source root
add_editable(members, e) ==
    LET m == e["PACKAGE_METADATA"]
        \* os.path.abspath(".") is the project's directory, /proj
        src_root == IF "src_root" \in DOMAIN m THEN PathJoin(<<"/","p","r","o","j">>, m["src_root"]) ELSE <<"/","p","r","o","j">>
    IN  Append(members, Member(m["name"] \o <<".","p","t","h">>, "SOURCE_EPOCH_ZIP", src_root \o <<"\n">>))

\* ZipFile.read(name): the data of the member the name resolves to, the
\* last one written under it
ZipRead(members, name) ==
    members[CHOOSE i \in DOMAIN members :
                /\ members[i].filename = name
                /\ \A j \in (i + 1)..Len(members) : members[j].filename # name].data

\* hashlib.sha256 and urlsafe_b64encode without padding, abstracted: a text
\* over the base64 alphabet that the data determines
RECURSIVE CheckSum(_)
CheckSum(data) ==
    IF data = <<>> THEN 7
    ELSE IF Len(data) = 1 THEN Ord(data[1]) + 1
    ELSE (31 * CheckSum(SubSeq(data, 1, Len(data) \div 2))
          + CheckSum(SubSeq(data, Len(data) \div 2 + 1, Len(data)))) % 997

Sha256B64(data) == IntStr(CheckSum(data))

\* ManifestLine with len(f) for len(data) at line 414
ManifestLineNameSize(members, f) ==
    ReplaceChar(f, ",", <<",",",">>) \o <<",","s","h","a","2","5","6","=">> \o Sha256B64(ZipRead(members, f)) \o <<",">> \o IntStr(Len(f))

\* lines 412-416: the record of one member
ManifestLine(members, f) ==
    LET data == ZipRead(members, f)
        size == Len(data)
        digest == <<"s","h","a","2","5","6","=">> \o Sha256B64(data)
    IN  ReplaceChar(f, ",", <<",",",">>) \o <<",">> \o digest \o <<",">> \o IntStr(size)

\* line 418
RecordPath(e) == RelPath(e["DIST_INFO_PATH"], e["WHEEL_PATH"]) \o <<"/","R","E","C","O","R","D">>

\* lines 407-424: the archive with RECORD appended
add_manifest(members, e) ==
    LET lines == [i \in DOMAIN members |-> ManifestLine(members, members[i].filename)]
        record_path == RecordPath(e)
        RECORD == Join(<<"\n">>, Append(lines, record_path \o <<",",",">>))
    IN  Append(members, Member(record_path, "SOURCE_EPOCH_ZIP", RECORD))

\* TaggedPath with the file name init_wheel made (WHEEL_FILE) for the one
\* line 473 makes
TaggedPathInitial(e, file, tag) == PathJoin(DirName(file), BaseName(e["WHEEL_FILE"]))

\* lines 467-475: the path correct_wheel_tags renames file to
TaggedPath(e, file, tag) ==
    PathJoin(DirName(file), Join(<<"-">>, <<e["PACKAGE_NAMEVER"], tag>>) \o <<".","w","h","l">>)

(***************************************************************************)
(* Bounds and inputs                                                       *)
(***************************************************************************)
\* the dependency groups a drawn optional-dependencies table has at most
MaxGroups == 2
\* the Whl calls an SConstruct makes at most
MaxWhl == 2
\* the calls an SConstruct that calls in any order makes at most
MaxCalls == 3

Empty == [k \in {} |-> k]

\* group keys: the base group, an extra, the same extra in another case, the
\* extra with a condition, and a condition alone
GroupKeys == { <<>>, <<"t","e","s","t">>, <<"T","e","s","t">>, <<"t","e","s","t",":","o","s","_","n","a","m","e","=","=","'","n","t","'">>, <<":","o","s","_","n","a","m","e","=","=","'","n","t","'">> }

\* requirement lists: none, a bare name, a specifier and a marker, a
\* malformed string
DepLists == { <<>>, << <<"s","i","x">> >>, << <<"p","y","t","e","s","t",">","=","3">>, <<"e","n","u","m","3","4",";"," ","o","s","_","n","a","m","e"," ","=","="," ","\"","n","t","\"">> >>, << <<"b","a","d"," ","r","e","q">> >> }

\* the dicts of at most n groups, in every insertion order
Mappings(n) ==
    UNION { {d \in [1..k -> GroupKeys \X DepLists] :
                \A i, j \in 1..k : i # j => d[i][1] # d[j][1]} : k \in 0..n }

Identity == ("name" :> <<"s","a","m","p","l","e">>) @@ ("version" :> <<"0",".","1">>)

\* descriptors that differ in their dependency tables
DependencyDescriptors ==
    { Identity @@ ("optional-dependencies" :> opt) @@ ext @@ base :
        opt \in Mappings(MaxGroups),
        ext \in {Empty, "extras_require" :> << <<<<"t","e","s","t">>, << <<"s","i","x">> >> >> >>},
        base \in {Empty, "dependencies" :> << <<"s","i","x">> >>, "install_requires" :> << <<"s","i","x">> >>} }

\* descriptors that differ in what can make the headers or the body fail
FieldDescriptors ==
    { nv @@ lic @@ readme @@ deps :
        nv \in {Identity, "name" :> <<"s","a","m","p","l","e">>, "version" :> <<"0",".","1">>},
        lic \in {Empty, "license" :> [str |-> <<"M","I","T">>], "license" :> [file |-> <<"L","I","C","E","N","S","E">>],
                 "license" :> [file |-> <<"C","O","P","Y","I","N","G">>]},
        readme \in {Empty, "readme" :> [str |-> <<"R","E","A","D","M","E",".","m","d">>], "readme" :> [str |-> <<"m","i","s","s","i","n","g",".","r","s","t">>],
                    "readme" :> [text |-> <<"h","i">>]},
        deps \in {Empty, "optional-dependencies" :> << <<<<"t","e","s","t">>, << <<"p","y","t","e","s","t",">","=","3">> >> >> >>,
                  "optional-dependencies" :> << <<<<"t","e","s","t">>, << <<"s","i","x">>, <<"b","a","d"," ","r","e","q">> >> >> >>} }

\* the descriptors a build is run on
Sample ==
    ("name" :> <<"s","a","m","p","l","e">>) @@ ("version" :> <<"0",".","1">>) @@ ("dependencies" :> << <<"s","i","x">> >>)
    @@ ("scripts" :> << <<<<"m","y","t","o","o","l">>, <<"p","k","g",".","m","o","d",":","m","a","i","n">>>> >>)

FooBar == ("name" :> <<"F","o","o","_","B","a","r">>) @@ ("version" :> <<"1",".","0">>)

BuildDescriptors ==
    { Sample,
      FooBar,
      ("name" :> <<"s","a","m","p","l","e">>),
      ("version" :> <<"0",".","1">>) }

\* what the user's SConstruct puts in env before the first enscons call
PresetEnvs ==
    { purelib @@ tag @@ target :
        purelib \in {Empty, "ROOT_IS_PURELIB" :> TRUE, "ROOT_IS_PURELIB" :> FALSE},
        tag \in {Empty, "WHEEL_TAG" :> <<"p","y","3","-","n","o","n","e","-","a","n","y">>, "WHEEL_TAG" :> get_binary_tag},
        target \in {Empty} \cup
            { "LIMITED_API_TARGET" :> t :
                t \in { [kind |-> "tuple", items |-> <<3, 8>>], [kind |-> "tuple", items |-> <<3, 10>>],
                        [kind |-> "tuple", items |-> <<3, 1>>], [kind |-> "tuple", items |-> <<2, 7>>],
                        [kind |-> "tuple", items |-> <<3>>], [kind |-> "list", items |-> <<3, 8>>] } } }

\* the project's files
ProjectFiles ==
    (<<"R","E","A","D","M","E",".","m","d">> :> <<"h","i","\n">>) @@ (<<"L","I","C","E","N","S","E">> :> <<"M","I","T","\n">>)
    @@ (<<"a",".","p","y">> :> <<"x","=","1","\n">>) @@ (<<"s","r","c","/","b",",","c",".","p","y">> :> <<>>)

\* the sources of Whl, each with the root the SConstruct gives for it
SourceFiles == { [source |-> <<"a",".","p","y">>, root |-> <<>>], [source |-> <<"s","r","c","/","b",",","c",".","p","y">>, root |-> <<"s","r","c">>] }
Categories == { <<"p","u","r","e","l","i","b">>, <<"p","l","a","t","l","i","b">>, <<"d","a","t","a">> }

\* what versioningit's get_version gives when the descriptor has no version
ScmOutcomes == { [ok |-> FALSE], [ok |-> TRUE, version |-> <<"0",".","2">>] }

(***************************************************************************)
(* Initial states                                                          *)
(***************************************************************************)
IdleMb == [pc |-> "idle", full_requires |-> <<>>, gi |-> 0, di |-> 0, hdr |-> FALSE, emitted |-> <<>>]
NoCall == [op |-> "", ok |-> TRUE]
NothingDeclared ==
    [builders |-> <<>>, zips |-> Empty, aliases |-> Empty, collected |-> <<>>, patched |-> FALSE]

\* the calls of an SConstruct; try: it catches what the call raises
WhlCall(category, file) ==
    [op |-> "Whl", category |-> category, source |-> file.source, root |-> file.root, try |-> FALSE]
WhlFileCall == [op |-> "WhlFile", try |-> FALSE]

SeqsUpTo(S, n) == UNION {[1..k -> S] : k \in 0..n}

\* every preset of env, on one project with one member
TagRuns ==
    { [env |-> e, project |-> Sample,
       sconstruct |-> <<WhlCall(<<"p","u","r","e","l","i","b">>, [source |-> <<"a",".","p","y">>, root |-> <<>>]), WhlFileCall>>] : e \in PresetEnvs }

\* every choice of members, with and without a binary tag, under the usual
\* SConstruct: Whl for each group of members, then WhlFile
MemberRuns ==
    { [env |-> e, project |-> d, sconstruct |-> calls \o <<WhlFileCall>>] :
        e \in {"WHEEL_TAG" :> <<"p","y","3","-","n","o","n","e","-","a","n","y">>, "WHEEL_TAG" :> get_binary_tag},
        d \in {Sample, FooBar},
        calls \in SeqsUpTo({WhlCall(c, f) : c \in Categories, f \in SourceFiles}, MaxWhl) }

\* every short sequence of calls the SConstruct guards with try, WhlFile at
\* most once, on complete and incomplete descriptors
CallRuns ==
    { [env |-> e, project |-> d,
       sconstruct |-> [i \in DOMAIN ops |->
                         [op |-> ops[i], try |-> TRUE, category |-> <<"p","u","r","e","l","i","b">>, source |-> <<"a",".","p","y">>, root |-> <<>>]]] :
        e \in {Empty, "ROOT_IS_PURELIB" :> TRUE, "WHEEL_TAG" :> <<"p","y","3","-","n","o","n","e","-","a","n","y">>,
               ("ROOT_IS_PURELIB" :> FALSE) @@ ("WHEEL_TAG" :> <<"p","y","3","-","n","o","n","e","-","a","n","y">>)},
        d \in BuildDescriptors,
        ops \in {c \in SeqsUpTo({"enscons_defaults", "get_tag", "Whl", "WhlFile"}, MaxCalls) :
                   Cardinality({i \in DOMAIN c : c[i] = "WhlFile"}) <= 1} }

\* every way of declaring entry points: scripts, gui-scripts and entry_points
\* groups (a table, or a list of lines), alone and together
EntryPointRuns ==
    { [env |-> "WHEEL_TAG" :> <<"p","y","3","-","n","o","n","e","-","a","n","y">>,
       project |-> ("name" :> <<"s","a","m","p","l","e">>) @@ ("version" :> <<"0",".","1">>) @@ scripts @@ gui @@ given,
       sconstruct |-> <<WhlCall(<<"p","u","r","e","l","i","b">>, [source |-> <<"a",".","p","y">>, root |-> <<>>]), WhlFileCall>>] :
        scripts \in {Empty,
                     "scripts" :> << <<<<"m","y","t","o","o","l">>, <<"p","k","g",".","m","o","d",":","m","a","i","n">>>> >>,
                     "scripts" :> << <<<<"b">>, <<"m",":","b">>>>, <<<<"a">>, <<"m",":","a">>>> >>},
        gui \in {Empty, "gui-scripts" :> << <<<<"w","i","n">>, <<"p","k","g",".","g","u","i",":","m","a","i","n">>>> >>},
        given \in {Empty,
                   "entry_points" :> << <<<<"c","o","n","s","o","l","e","_","s","c","r","i","p","t","s">>, [table |-> << <<<<"o","t","h","e","r">>, <<"p","k","g",":","o","t","h","e","r">>>> >>]>> >>,
                   "entry_points" :> << <<<<"p","y","t","e","s","t","1","1">>, [list |-> << <<"x"," ","="," ","p","k","g",".","x">> >>]>>,
                                        <<<<"g","u","i","_","s","c","r","i","p","t","s">>, [table |-> << <<<<"a","p","p">>, <<"p","k","g",":","a","p","p">>>> >>]>>,
                                        <<<<"a",".","g","r","o","u","p">>, [table |-> << <<<<"z">>, <<"m",":","z">>>>, <<<<"y">>, <<"m",":","y">>>> >>]>> >>} }

\* a project whose SConstruct is about to run under api._run for an alias
Init ==
    /\ \E run \in TagRuns \cup MemberRuns \cup CallRuns \cup EntryPointRuns :
        /\ pyproject = ("project" :> run.project)
        /\ env = run.env
        /\ sconstruct = run.sconstruct
    /\ files = ProjectFiles
    /\ archives = Empty
    /\ scons = NothingDeclared
    /\ build \in {[phase |-> "read", alias |-> a, plan |-> <<>>, pc |-> 1, ret |-> <<>>] :
                    a \in {"bdist_wheel", "editable"}}
    /\ mb = IdleMb
    /\ last = NoCall

\* a build whose one step is a metadata target (PKG-INFO of SDist)
InitReq ==
    /\ \E d \in DependencyDescriptors \cup FieldDescriptors :
        /\ pyproject = ("project" :> d)
        /\ env = ("PACKAGE_METADATA" :> d)
    /\ files = ProjectFiles
    /\ archives = Empty
    /\ sconstruct = <<>>
    /\ scons = NothingDeclared
    /\ build = [phase |-> "build", alias |-> "", pc |-> 1, ret |-> <<>>,
                plan |-> <<Step("metadata_builder", <<"P","K","G","-","I","N","F","O">>, <<>>)>>]
    /\ mb = IdleMb
    /\ last = NoCall

(***************************************************************************)
(* The build steps                                                         *)
(***************************************************************************)
Current(action) ==
    /\ build.phase = "build"
    /\ build.pc <= Len(build.plan)
    /\ build.plan[build.pc].action = action

cur == build.plan[build.pc]

\* the step ends: SCons goes on to the next, or stops the build on a raise
Ends(op, ok) ==
    /\ build' = IF ok THEN [build EXCEPT !.pc = @ + 1] ELSE [build EXCEPT !.phase = "failed"]
    /\ last' = [op |-> op, ok |-> ok]

\* f.write(text) on the open target
WriteTo(path, text) == SetKey(files, path, (IF path \in DOMAIN files THEN files[path] ELSE <<>>) \o text)

RecordLine(record) == record[1] \o <<":"," ">> \o record[2] \o <<"\n">>

\* metadata_builder, lines 271-330: the target is opened for writing and the
\* headers are written
metadata_builder_headers ==
    /\ Current("metadata_builder")
    /\ mb.pc \in {"idle", "done"}
    /\ LET headers == Headers(env["PACKAGE_METADATA"])
       IN  /\ files' = SetKey(files, cur.target, headers.text)
           /\ IF headers.ok
              THEN /\ mb' = [IdleMb EXCEPT !.pc = "reqs", !.gi = 1,
                                           !.full_requires = FullRequires(env["PACKAGE_METADATA"])]
                   /\ UNCHANGED <<build, last>>
              ELSE /\ mb' = [IdleMb EXCEPT !.pc = "failed"]
                   /\ Ends("metadata_builder", FALSE)
    /\ UNCHANGED <<pyproject, env, archives, sconstruct, scons>>

InGroup == Current("metadata_builder") /\ mb.pc = "reqs" /\ mb.gi <= Len(mb.full_requires)

\* generate_requirements, lines 74-85, and line 332 of metadata_builder: the
\* next group's prologue, and the record it yields written
generate_requirements_extra ==
    /\ InGroup /\ ~mb.hdr
    /\ LET extra == GroupExtra(mb.full_requires[mb.gi][1])
           record == <<ProvidesExtra, extra>>
       IN  IF extra # <<>>
           THEN /\ mb' = [mb EXCEPT !.hdr = TRUE, !.emitted = Append(@, record)]
                /\ files' = WriteTo(cur.target, RecordLine(record))
           ELSE /\ mb' = [mb EXCEPT !.hdr = TRUE]
                /\ UNCHANGED files
    /\ UNCHANGED <<pyproject, env, archives, sconstruct, scons, build, last>>

\* lines 87-94, and line 332: the group's next requirement, parsed, given the
\* group's condition, yielded and written; a malformed one raises
generate_requirements_dist ==
    /\ InGroup /\ mb.hdr /\ mb.di < Len(mb.full_requires[mb.gi][2])
    /\ LET group == mb.full_requires[mb.gi]
           new_req == Requirement(group[2][mb.di + 1])
       IN  IF new_req.valid
           THEN LET record == <<RequiresDist, RequirementStr(MergeMarker(new_req, GroupCondition(group[1])))>>
                IN  /\ mb' = [mb EXCEPT !.di = @ + 1, !.emitted = Append(@, record)]
                    /\ files' = WriteTo(cur.target, RecordLine(record))
                    /\ UNCHANGED <<build, last>>
           ELSE /\ mb' = [mb EXCEPT !.pc = "failed"]
                /\ UNCHANGED files
                /\ Ends("metadata_builder", FALSE)
    /\ UNCHANGED <<pyproject, env, archives, sconstruct, scons>>

\* line 74: the loop goes on to the mapping's next item
generate_requirements_next ==
    /\ InGroup /\ mb.hdr /\ mb.di = Len(mb.full_requires[mb.gi][2])
    /\ mb' = [mb EXCEPT !.gi = @ + 1, !.di = 0, !.hdr = FALSE]
    /\ UNCHANGED <<pyproject, env, files, archives, sconstruct, scons, build, last>>

\* lines 333-366: the generator is exhausted; the long description is read
\* and written and the target is closed
metadata_builder_body ==
    /\ Current("metadata_builder") /\ mb.pc = "reqs" /\ mb.gi > Len(mb.full_requires)
    /\ LET body == Description(env["PACKAGE_METADATA"])
       IN  /\ files' = WriteTo(cur.target, body.text)
           /\ mb' = [mb EXCEPT !.pc = IF body.ok THEN "done" ELSE "failed"]
           /\ Ends("metadata_builder", body.ok)
    /\ UNCHANGED <<pyproject, env, archives, sconstruct, scons>>

NextReq ==
    \/ metadata_builder_headers
    \/ generate_requirements_extra
    \/ generate_requirements_dist
    \/ generate_requirements_next
    \/ metadata_builder_body

SpecReq == InitReq /\ [][NextReq]_vars

(***************************************************************************)
(* Properties of the requirement expander (under SpecReq)                  *)
(***************************************************************************)
\* the keys of the groups the generator has reached, in the order it reached them
Visited ==
    [i \in 1..(IF mb.gi > Len(mb.full_requires) THEN Len(mb.full_requires) ELSE mb.gi) |->
        mb.full_requires[i][1]]

\* the generator is in a group and has just yielded one of its requirements
Yielded == mb.pc = "reqs" /\ mb.gi <= Len(mb.full_requires) /\ mb.hdr /\ mb.di > 0

LastRecord == mb.emitted[Len(mb.emitted)]

\* the marker of a requirement as written: what follows its ";"
MarkerOf(value) == IF Find(value, ";") = 0 THEN <<>> ELSE From(value, Find(value, ";") + 1)

ExtraClause(key) == <<"e","x","t","r","a"," ","=","="," ","'">> \o GroupExtra(key) \o <<"'">>

\* C1: the groups are visited in ascending order of their names, and so the
\* records of a base group "" that has requirements come before every
\* Provides-Extra record
C1_GroupsInSortedOrder ==
    mb.pc = "reqs" =>
        /\ \A i, j \in DOMAIN Visited : i < j => Less(Visited[i], Visited[j])
        /\ (mb.gi <= Len(mb.full_requires)
            /\ mb.full_requires[mb.gi][1] = <<>> /\ mb.full_requires[mb.gi][2] # <<>>)
           => \A i \in DOMAIN mb.emitted : mb.emitted[i][1] # ProvidesExtra

\* the values of the Provides-Extra records emitted so far
Provided == {mb.emitted[i][2] : i \in {k \in DOMAIN mb.emitted : mb.emitted[k][1] = ProvidesExtra}}

\* C2: once the generator is exhausted, the Provides-Extra records are the
\* non-empty normalized names of the groups that have a requirement, each
\* emitted once
C2_ProvidesExtraOnce ==
    (mb.pc = "reqs" /\ mb.gi > Len(mb.full_requires)) =>
        /\ Provided = {GroupExtra(g[1]) : g \in {x \in Range(mb.full_requires) : x[2] # <<>>}} \ {<<>>}
        /\ \A i, j \in DOMAIN mb.emitted :
            (i # j /\ mb.emitted[i][1] = ProvidesExtra /\ mb.emitted[j][1] = ProvidesExtra)
            => mb.emitted[i][2] # mb.emitted[j][2]

\* C3, as stated: a requirement of a group whose key is not empty is
\* emitted with a marker that contains extra == '<the group's normalized name>'
C3_KeyedGroupHasExtraClause ==
    (Yielded /\ mb.full_requires[mb.gi][1] # <<>>) =>
        /\ LastRecord[1] = RequiresDist
        /\ Contains(MarkerOf(LastRecord[2]), ExtraClause(mb.full_requires[mb.gi][1]))

\* C3, amended: a requirement of a group whose normalized extra name is not
\* empty is emitted with a marker that contains extra == '<that name>',
\* with or without a condition in the key and a marker of its own
C3_NamedGroupHasExtraClause ==
    (Yielded /\ GroupExtra(mb.full_requires[mb.gi][1]) # <<>>) =>
        /\ LastRecord[1] = RequiresDist
        /\ Contains(MarkerOf(LastRecord[2]), ExtraClause(mb.full_requires[mb.gi][1]))

\* a requirement with a marker of its own has been emitted from a group
\* whose key has a condition
C3_Witness ==
    /\ Yielded
    /\ mb.full_requires[mb.gi][1] = <<"t","e","s","t",":","o","s","_","n","a","m","e","=","=","'","n","t","'">>
    /\ LastRecord = <<RequiresDist, <<"e","n","u","m","3","4",";"," ","(","o","s","_","n","a","m","e"," ","=","="," ","\"","n","t","\"",")"," ","a","n","d"," ","(","o","s","_","n","a","m","e","=","=","'","n","t","'",")"," ","a","n","d"," ","e","x","t","r","a"," ","=","="," ","'","t","e","s","t","'">>>>

\* C6: when metadata_builder has failed, its target does not exist
C6_CompleteOrAbsent ==
    (build.phase = "failed" /\ last.op = "metadata_builder" /\ mb.pc = "failed")
        => cur.target \notin DOMAIN files

(***************************************************************************)
(* The SConstruct runs: the calls it makes on env                          *)
(***************************************************************************)
Calling(op) == build.phase = "read" /\ sconstruct # <<>> /\ Head(sconstruct).op = op

\* the call ends: the SConstruct goes on to its next call, also after an
\* exception it catches; an exception it does not catch ends the run
Called(op, ok) ==
    /\ last' = [op |-> op, ok |-> ok]
    /\ sconstruct' = Tail(sconstruct)
    /\ build' = IF ok \/ Head(sconstruct).try THEN build ELSE [build EXCEPT !.phase = "failed"]

\* enscons_defaults(env), as SDist, develop or the SConstruct itself call it
CallEnsconsDefaults ==
    /\ Calling("enscons_defaults")
    /\ \E scm \in ScmOutcomes :
        \E r \in {enscons_defaults(env, scm)} :
            env' = r.env /\ Called("enscons_defaults", r.ok)
    /\ UNCHANGED <<pyproject, files, archives, scons, mb>>

\* env.Whl(category, source): the SConstruct keeps the targets it returns
CallWhl ==
    /\ Calling("Whl")
    /\ \E scm \in ScmOutcomes :
        \E r \in {Whl(env, scons, Head(sconstruct).category, Head(sconstruct).source,
                        Head(sconstruct).root, scm)} :
            /\ env' = r.env
            /\ scons' = IF r.ok THEN [r.scons EXCEPT !.collected = Append(@, r.ret)] ELSE r.scons
            /\ Called("Whl", r.ok)
    /\ UNCHANGED <<pyproject, files, archives, mb>>

\* the targets collected so far, each node once
RECURSIVE Collected(_, _)
Collected(lists, seen) ==
    IF lists = <<>> THEN <<>>
    ELSE LET new == SelectSeq(lists[1], LAMBDA t : t \notin seen)
         IN  new \o Collected(Tail(lists), seen \cup Range(new))

\* env.WhlFile(source=...) on the targets the Whl calls returned
CallWhlFile ==
    /\ Calling("WhlFile")
    /\ \E scm \in ScmOutcomes :
        \E r \in {WhlFile(env, scons, Collected(scons.collected, {}), scm)} :
            /\ env' = r.env
            /\ scons' = r.scons
            /\ Called("WhlFile", r.ok)
    /\ UNCHANGED <<pyproject, files, archives, mb>>

\* enscons.get_tag(env), called by the SConstruct
CallGetTag ==
    /\ Calling("get_tag")
    /\ \E r \in {get_tag(env)} :
        env' = r.env /\ Called("get_tag", r.ok)
    /\ UNCHANGED <<pyproject, files, archives, scons, mb>>

\* the SConstruct has been read: SCons builds the alias api._run was given,
\* or fails on one that was not declared
StartBuild ==
    /\ build.phase = "read" /\ sconstruct = <<>>
    /\ build' = IF build.alias \in DOMAIN scons.aliases
                THEN [build EXCEPT !.phase = "build", !.plan = Plan(scons, build.alias)]
                ELSE [build EXCEPT !.phase = "failed"]
    /\ UNCHANGED <<pyproject, env, files, archives, sconstruct, scons, mb, last>>

(***************************************************************************)
(* The steps of a wheel build                                              *)
(***************************************************************************)
\* env.InstallAs: the source file is copied to its place under WHEEL_PATH
InstallAs ==
    /\ Current("InstallAs")
    /\ IF cur.source \in DOMAIN files
       THEN files' = SetKey(files, cur.target, files[cur.source]) /\ Ends("InstallAs", TRUE)
       ELSE UNCHANGED files /\ Ends("InstallAs", FALSE)
    /\ UNCHANGED <<pyproject, env, archives, sconstruct, scons, mb>>

\* wheelmeta_builder: the target is opened, then get_tag runs
wheelmeta_builder ==
    /\ Current("wheelmeta_builder")
    /\ LET r == get_tag(env)
       IN  /\ env' = r.env
           /\ files' = SetKey(files, cur.target,
                              IF r.ok THEN WheelText(env["ROOT_IS_PURELIB"], r.ret) ELSE <<>>)
           /\ Ends("wheelmeta_builder", r.ok)
    /\ UNCHANGED <<pyproject, archives, sconstruct, scons, mb>>

entry_points_builder ==
    /\ Current("entry_points_builder")
    /\ files' = SetKey(files, cur.target, EntryPointsText(env["PACKAGE_METADATA"]))
    /\ Ends("entry_points_builder", TRUE)
    /\ UNCHANGED <<pyproject, env, archives, sconstruct, scons, mb>>

\* the Zip builder's action: a new archive of the sources
Zip ==
    /\ Current("Zip")
    /\ LET z == scons.zips[cur.target]
       IN  IF ZipReady(z.source)
           THEN /\ \E walk \in Perms(Walked(z.source)) :
                     archives' = SetKey(archives, cur.target,
                                         ZipMembers(z.source, z.ziproot, walk,
                                                    IF scons.patched THEN "SOURCE_EPOCH_ZIP"
                                                    ELSE "st_mtime"))
                /\ Ends("Zip", TRUE)
           ELSE /\ archives' = SetKey(archives, cur.target, <<>>)
                /\ Ends("Zip", FALSE)
    /\ UNCHANGED <<pyproject, env, files, sconstruct, scons, mb>>

\* the archive opened in append mode: a missing one is created empty
Opened(path) == IF path \in DOMAIN archives THEN archives[path] ELSE <<>>

RunAddEditable ==
    /\ Current("add_editable")
    /\ archives' = SetKey(archives, cur.target, add_editable(Opened(cur.target), env))
    /\ Ends("add_editable", TRUE)
    /\ UNCHANGED <<pyproject, env, files, sconstruct, scons, mb>>

RunAddManifest ==
    /\ Current("add_manifest")
    /\ archives' = SetKey(archives, cur.target, add_manifest(Opened(cur.target), env))
    /\ Ends("add_manifest", TRUE)
    /\ UNCHANGED <<pyproject, env, files, sconstruct, scons, mb>>

\* os.rename(file, to_file)
Rename(file, to_file) ==
    [p \in (DOMAIN archives \ {file}) \cup {to_file} |->
        IF p = to_file THEN archives[file] ELSE archives[p]]

\* correct_wheel_tags, the action of the bdist_wheel alias, on the alias's
\* first source
correct_wheel_tags ==
    /\ Current("correct_wheel_tags")
    /\ LET file == scons.aliases[build.alias].sources[1]
           r == get_tag(env)
       IN  /\ env' = r.env
           /\ IF r.ok /\ file \in DOMAIN archives
              THEN LET to_file == TaggedPath(env, file, r.ret)
                   IN  /\ archives' = Rename(file, to_file)
                       /\ scons' = Alias(scons, "bdist_wheel", to_file, "")
                       /\ Ends("correct_wheel_tags", TRUE)
              ELSE /\ UNCHANGED <<archives, scons>>
                   /\ Ends("correct_wheel_tags", FALSE)
    /\ UNCHANGED <<pyproject, files, sconstruct, mb>>

\* api._run, lines 40-44: SCons is done; the name of the alias's first source
\* is returned
Finish ==
    /\ build.phase = "build"
    /\ build.pc > Len(build.plan)
    /\ build.alias \in DOMAIN scons.aliases
    /\ build' = [build EXCEPT !.phase = "done",
                              !.ret = BaseName(scons.aliases[build.alias].sources[1])]
    /\ UNCHANGED <<pyproject, env, files, archives, sconstruct, scons, mb, last>>

Next ==
    \/ CallEnsconsDefaults
    \/ CallWhl
    \/ CallWhlFile
    \/ CallGetTag
    \/ StartBuild
    \/ InstallAs
    \/ metadata_builder_headers
    \/ generate_requirements_extra
    \/ generate_requirements_dist
    \/ generate_requirements_next
    \/ metadata_builder_body
    \/ wheelmeta_builder
    \/ entry_points_builder
    \/ Zip
    \/ RunAddEditable
    \/ RunAddManifest
    \/ correct_wheel_tags
    \/ Finish

Spec == Init /\ [][Next]_vars
(***************************************************************************)
(* Properties of the tag resolver and the archive assembler (under Spec)   *)
(***************************************************************************)
\* the lines of RECORD: "\n".join(lines) taken apart
RecordLines(members) == SplitLines(members[Len(members)].data)

\* C4: add_manifest leaves the members it found as they were and appends
\* RECORD, which has one line for each of them, in their order, ending with
\* the member's byte length, and a last line of RECORD's own path with an
\* empty hash and an empty size
C4_ManifestComplete ==
    [][Current("add_manifest") =>
        /\ cur.target \in DOMAIN archives'
        /\ Len(archives'[cur.target]) = Len(Opened(cur.target)) + 1
        /\ SubSeq(archives'[cur.target], 1, Len(Opened(cur.target))) = Opened(cur.target)
        /\ archives'[cur.target][Len(Opened(cur.target)) + 1].filename = RecordPath(env)
        /\ Len(RecordLines(archives'[cur.target])) = Len(Opened(cur.target)) + 1
        /\ \A i \in DOMAIN Opened(cur.target) :
            /\ StartsWith(RecordLines(archives'[cur.target])[i],
                          ReplaceChar(Opened(cur.target)[i].filename, ",", <<",",",">>) \o <<",","s","h","a","2","5","6","=">>)
            /\ EndsWith(RecordLines(archives'[cur.target])[i],
                        <<",">> \o IntStr(Len(Opened(cur.target)[i].data)))
        /\ RecordLines(archives'[cur.target])[Len(Opened(cur.target)) + 1] = RecordPath(env) \o <<",",",">>
    ]_vars

\* add_manifest has run on a wheel of two installed members, one of them
\* empty with a comma in its name, and the three control files
C4_Witness ==
    /\ last = [op |-> "add_manifest", ok |-> TRUE]
    /\ \E p \in DOMAIN archives :
        /\ Len(archives[p]) = 6
        /\ archives[p][6].filename = <<"s","a","m","p","l","e","-","0",".","1",".","d","i","s","t","-","i","n","f","o","/","R","E","C","O","R","D">>
        /\ \E i \in 1..5 : archives[p][i] = Member(<<"b",",","c",".","p","y">>, "SOURCE_EPOCH_ZIP", <<>>)
        /\ \E i \in 1..5 : archives[p][i] = Member(<<"s","a","m","p","l","e","-","0",".","1",".","d","a","t","a","/","d","a","t","a","/","a",".","p","y">>, "SOURCE_EPOCH_ZIP", <<"x","=","1","\n">>)

\* enscons_defaults has returned: its last assignment is made
DefaultsDone == {"EGG_INFO_PATH", "ROOT_IS_PURELIB", "WHEEL_TAG"} \subseteq DOMAIN env

\* C5: after enscons_defaults, whatever was preset, ROOT_IS_PURELIB is true
\* exactly when WHEEL_TAG ends with none-any
C5_PurelibIffNoneAny ==
    DefaultsDone => (env["ROOT_IS_PURELIB"] <=> EndsWith(env["WHEEL_TAG"], <<"n","o","n","e","-","a","n","y">>))

\* a step that resolves the tag is about to run
ResolvesTag ==
    Calling("get_tag") \/ Current("wheelmeta_builder") \/ Current("correct_wheel_tags")

\* a limited-API target is requested and is not a (3, minor) pair with minor >= 2
BadTarget ==
    /\ "LIMITED_API_TARGET" \in DOMAIN env
    /\ \/ env["LIMITED_API_TARGET"].kind # "tuple"
       \/ Len(env["LIMITED_API_TARGET"].items) # 2
       \/ env["LIMITED_API_TARGET"].items[1] # 3
       \/ env["LIMITED_API_TARGET"].items[2] < 2

Purelib == "ROOT_IS_PURELIB" \in DOMAIN env /\ env["ROOT_IS_PURELIB"]

\* C7, as stated: a step that has resolved the tag under a bad target has
\* failed, purelib or not
C7_BadTargetFails ==
    (last.op \in {"get_tag", "wheelmeta_builder", "correct_wheel_tags"} /\ BadTarget) => ~last.ok

\* C7, amended: under a bad target, tag resolution of a build that is not
\* purelib fails and leaves env as it was, WHEEL_TAG included; that of a
\* purelib build does not look at the target and sets py3-none-any
C7_BadTargetFailsUnlessPurelib ==
    [][(ResolvesTag /\ BadTarget) =>
        IF Purelib THEN env'["WHEEL_TAG"] = <<"p","y","3","-","n","o","n","e","-","a","n","y">>
        ELSE ~last'.ok /\ env' = env
    ]_vars

\* WHEEL could not be written for a build that is not purelib and asks for
\* the target (3, 1); WHEEL_TAG is what enscons_defaults set
C7_Witness ==
    /\ last = [op |-> "wheelmeta_builder", ok |-> FALSE]
    /\ build.phase = "failed"
    /\ ~Purelib /\ BadTarget
    /\ env["LIMITED_API_TARGET"].items = <<3, 1>>
    /\ env["WHEEL_TAG"] = get_binary_tag

\* C8: when correct_wheel_tags has run for a build that is not purelib and
\* asks for a target (3, minor), minor >= 2, the tag is cp3<minor>-abi3-<platform>,
\* in env and in WHEEL, and the archive is in the wheel directory under
\* <safe name>-<version>-<tag>.whl
C8_LimitedAbiName ==
    (last = [op |-> "correct_wheel_tags", ok |-> TRUE]
     /\ ~Purelib /\ "LIMITED_API_TARGET" \in DOMAIN env /\ ~BadTarget)
    => LET tag == <<"c","p","3">> \o IntStr(env["LIMITED_API_TARGET"].items[2]) \o <<"-","a","b","i","3","-">> \o HostPlatform
           name == env["PACKAGE_NAME_SAFE"] \o <<"-">> \o env["PACKAGE_VERSION"] \o <<"-">> \o tag \o <<".","w","h","l">>
       IN  /\ env["WHEEL_TAG"] = tag
           /\ EndsWith(files[PathJoin(env["DIST_INFO_PATH"], <<"W","H","E","E","L">>)], <<"\n","T","a","g",":"," ">> \o tag \o <<"\n">>)
           /\ PathJoin(env["WHEEL_DIR"], name) \in DOMAIN archives

\* the wheel of sample 0.1 for the target (3, 8) has been renamed
C8_Witness ==
    /\ last = [op |-> "correct_wheel_tags", ok |-> TRUE]
    /\ ~Purelib /\ "LIMITED_API_TARGET" \in DOMAIN env
    /\ env["LIMITED_API_TARGET"] = [kind |-> "tuple", items |-> <<3, 8>>]
    /\ env["WHEEL_TAG"] = <<"c","p","3","8","-","a","b","i","3","-","l","i","n","u","x","_","x","8","6","_","6","4">>
    /\ <<"d","i","s","t","/","s","a","m","p","l","e","-","0",".","1","-","c","p","3","8","-","a","b","i","3","-","l","i","n","u","x","_","x","8","6","_","6","4",".","w","h","l">> \in DOMAIN archives

\* the steps of the plan that work on an archive
PassesOn(target, actions) ==
    {k \in DOMAIN build.plan : build.plan[k].target = target /\ build.plan[k].action \in actions}

\* the places of RECORD among the members of an archive
RecordsIn(members) == {i \in DOMAIN members : members[i].filename = RecordPath(env)}

\* C9: in the plan of a build, every archive has one add_manifest pass,
\* after its Zip step and after add_editable if it is the editable one,
\* and the rename comes after it; an archive has no RECORD before that pass
\* has run, and from then on RECORD once, as its last member, with a line
\* for every member
C9_ManifestLast ==
    build.phase # "read" =>
        /\ \A k \in DOMAIN build.plan :
            build.plan[k].action \in {"Zip", "add_editable", "add_manifest"} =>
                LET target == build.plan[k].target
                IN  /\ Cardinality(PassesOn(target, {"Zip"})) = 1
                    /\ Cardinality(PassesOn(target, {"add_manifest"})) = 1
                    /\ \A n \in PassesOn(target, {"add_manifest"}) :
                        /\ \A c \in PassesOn(target, {"Zip", "add_editable"}) : c < n
                        /\ \A r \in DOMAIN build.plan :
                            build.plan[r].action = "correct_wheel_tags" => n < r
                    /\ target \in Range(Aliased(scons, "editable").sources)
                        => Cardinality(PassesOn(target, {"add_editable"})) = 1
        /\ \A p \in DOMAIN archives :
            /\ Cardinality(RecordsIn(archives[p])) <= 1
            /\ RecordsIn(archives[p]) # {} <=>
                \/ PassesOn(p, {"Zip"}) = {}
                \/ \E n \in PassesOn(p, {"add_manifest"}) : n < build.pc
            /\ RecordsIn(archives[p]) # {} =>
                /\ RecordsIn(archives[p]) = {Len(archives[p])}
                /\ Len(RecordLines(archives[p])) = Len(archives[p])

\* an editable archive is complete: the control files, the .pth member
\* add_editable gave, RECORD last
C9_WitnessEditable ==
    /\ build.phase = "done" /\ build.alias = "editable"
    /\ \E p \in DOMAIN archives :
        /\ Len(archives[p]) = 5
        /\ archives[p][4].filename = <<"s","a","m","p","l","e",".","p","t","h">>
        /\ archives[p][5].filename = <<"s","a","m","p","l","e","-","0",".","1",".","d","i","s","t","-","i","n","f","o","/","R","E","C","O","R","D">>

\* C10: when the build of bdist_wheel is done, the wheel is at its
\* tag-qualified path and not at the path it was built at, and what _run
\* returns is the name of the file at the tag-qualified path
C10_RenamedIsReturned ==
    (build.phase = "done" /\ build.alias = "bdist_wheel") =>
        LET renamed == PathJoin(env["WHEEL_DIR"],
                            env["PACKAGE_NAME_SAFE"] \o <<"-">> \o env["PACKAGE_VERSION"] \o <<"-">>
                            \o env["WHEEL_TAG"] \o <<".","w","h","l">>)
        IN  /\ renamed \in DOMAIN archives
            /\ WhlFileTarget(env) \notin DOMAIN archives
            /\ build.ret = BaseName(renamed)

\* the first enscons call of an SConstruct that preset neither
\* ROOT_IS_PURELIB nor WHEEL_TAG, on the descriptor Foo_Bar 1.0
NoBinaryFooBar ==
    /\ build.phase = "read" /\ last = NoCall
    /\ pyproject["project"] = FooBar
    /\ DOMAIN env \cap {"ROOT_IS_PURELIB", "WHEEL_TAG", "PACKAGE_METADATA"} = {}

\* C11: for the descriptor Foo_Bar 1.0 with neither ROOT_IS_PURELIB nor
\* WHEEL_TAG preset, enscons_defaults (called by itself or by Whl) completes,
\* the safe package name is Foo_Bar, the build is purelib and the tag that
\* names the wheel is py3-none-any
C11_FooBarPurelibWheel ==
    [][(NoBinaryFooBar /\ (Calling("enscons_defaults") \/ Calling("Whl"))) =>
        /\ last'.ok
        /\ env'["PACKAGE_NAME_SAFE"] = <<"F","o","o","_","B","a","r">>
        /\ env'["ROOT_IS_PURELIB"]
        /\ env'["WHEEL_TAG"] = <<"p","y","3","-","n","o","n","e","-","a","n","y">>
    ]_vars

(***************************************************************************)
(* Re-normalization of identifiers (SpecName)                              *)
(***************************************************************************)
MaxNameLen == 3
MaxApply == 2

\* the names: letters of both cases, a digit, the characters the classes of
\* safe_name and safe_extra differ on, and two they both replace
Names == SeqsUpTo({"A", "b", "1", ".", "-", "_", " ", "+"}, MaxNameLen)

\* a name about to be normalized; last has the function applied (op), how
\* many times in a row (n), the name it started from, and the argument and
\* the result of the latest application
InitName ==
    /\ \E name \in Names :
        last = [op |-> "", ok |-> TRUE, n |-> 0, name |-> name, arg |-> <<>>, ret |-> name]
    /\ pyproject = Empty
    /\ env = Empty
    /\ files = Empty
    /\ archives = Empty
    /\ sconstruct = <<>>
    /\ scons = NothingDeclared
    /\ build = [phase |-> "names", alias |-> "", pc |-> 1, ret |-> <<>>, plan |-> <<>>]
    /\ mb = IdleMb

\* the function is applied, to the name or to what it gave the last time
Apply(op, ret) ==
    /\ build.phase = "names" /\ last.op \in {"", op} /\ last.n < MaxApply
    /\ last' = [op |-> op, ok |-> TRUE, n |-> last.n + 1, name |-> last.name,
                arg |-> last.ret, ret |-> ret]
    /\ UNCHANGED <<pyproject, env, files, archives, sconstruct, scons, build, mb>>

ApplySafeName == Apply("safe_name", safe_name(last.ret))

ApplySafeExtra == Apply("safe_extra", safe_extra(last.ret))

ApplyToFilename == Apply("to_filename", to_filename(last.ret))

ApplyNormalizePackage == Apply("normalize_package", normalize_package(last.ret))

NextName ==
    \/ ApplySafeName
    \/ ApplySafeExtra
    \/ ApplyToFilename
    \/ ApplyNormalizePackage

SpecName == InitName /\ [][NextName]_vars

\* C12: safe_name, to_filename, safe_extra and normalize_package, applied to
\* their own result, give that result again
C12_Idempotent ==
    (last.op \in {"safe_name", "safe_extra", "to_filename", "normalize_package"} /\ last.n >= 2)
        => last.ret = last.arg

\* safe_extra has been applied twice to "A +": the result is a_ both times
C12_Witness ==
    /\ last.op = "safe_extra" /\ last.n = 2
    /\ last.name = <<"A"," ","+">>
    /\ last.arg = <<"a","_">> /\ last.ret = <<"a","_">>

(***************************************************************************)
(* Properties of the entry-point file (under Spec)                         *)
(***************************************************************************)
\* the lines of the section of a group in entry_points.txt, from the line
\* after its header to the line before the next header
SectionLines(lines, group) ==
    LET h == CHOOSE i \in DOMAIN lines : lines[i] = <<"[">> \o group \o <<"]">>
        later == {j \in (h + 1)..Len(lines) : lines[j] # <<>> /\ lines[j][1] = "["}
    IN  SubSeq(lines, h + 1, IF later = {} THEN Len(lines)
                             ELSE (CHOOSE j \in later : \A k \in later : j <= k) - 1)

\* the entries of a group given under entry_points as a table
GivenEntries(m, group) ==
    LET given == Get(m, "entry_points", <<>>)
        at == {i \in DOMAIN given : given[i][1] = group /\ "table" \in DOMAIN given[i][2]}
    IN  IF at = {} THEN <<>> ELSE given[CHOOSE i \in at : TRUE][2]["table"]

\* the section of a group holds the lines "key = value" of these entries, by
\* ascending key, and there is one such section
HasSection(lines, group, entries) ==
    /\ Cardinality({i \in DOMAIN lines : lines[i] = <<"[">> \o group \o <<"]">>}) = 1
    /\ SectionLines(lines, group)
        = [i \in DOMAIN entries |->
            SortedItems(entries)[i][1] \o <<" ","="," ">> \o SortedItems(entries)[i][2]]

\* C13: once entry_points.txt is written, the section headers are in
\* ascending order of group name, and a descriptor's scripts (gui-scripts)
\* are in the one section console_scripts (gui_scripts), one "key = value"
\* line for each by ascending key, together with the entries of a group of
\* that name given under entry_points
C13_ScriptsFolded ==
    ("DIST_INFO_PATH" \in DOMAIN env
     /\ PathJoin(env["DIST_INFO_PATH"], <<"e","n","t","r","y","_","p","o","i","n","t","s",".","t","x","t">>) \in DOMAIN files)
    => LET m == env["PACKAGE_METADATA"]
           lines == SplitLines(files[PathJoin(env["DIST_INFO_PATH"],
                        <<"e","n","t","r","y","_","p","o","i","n","t","s",".","t","x","t">>)])
           headers == SelectSeq(lines, LAMBDA l : l # <<>> /\ l[1] = "[")
       IN  /\ \A i \in 1..(Len(headers) - 1) : Less(headers[i], headers[i + 1])
           /\ "scripts" \in DOMAIN m =>
                HasSection(lines, <<"c","o","n","s","o","l","e","_","s","c","r","i","p","t","s">>,
                           DictUpdate(GivenEntries(m, <<"c","o","n","s","o","l","e","_","s","c","r","i","p","t","s">>),
                                      m["scripts"]))
           /\ "gui-scripts" \in DOMAIN m =>
                HasSection(lines, <<"g","u","i","_","s","c","r","i","p","t","s">>,
                           DictUpdate(GivenEntries(m, <<"g","u","i","_","s","c","r","i","p","t","s">>),
                                      m["gui-scripts"]))

(***************************************************************************)
(* Properties of the archive timestamps (under Spec)                       *)
(***************************************************************************)
\* C14: every member of every archive on disk, whichever step wrote it and
\* whichever calls the SConstruct made, has the date_time SOURCE_EPOCH_ZIP
C14_MembersAtSourceEpoch ==
    \A p \in DOMAIN archives :
        \A i \in DOMAIN archives[p] : archives[p][i].date_time = "SOURCE_EPOCH_ZIP"

(***************************************************************************)
(* Properties of the member placement (under Spec)                         *)
(***************************************************************************)
\* C15: a Whl call that returns has declared the installation of its source
\* at the source's path from the given root, directly under the wheel root
\* when the category is the root category of the build (purelib if
\* ROOT_IS_PURELIB, else platlib), and under
\* <safe name>-<version>.data/<category>/ for every other category
C15_MemberPlacement ==
    [][(Calling("Whl") /\ last'.ok) =>
        LET call == Head(sconstruct)
            target == scons'.collected[Len(scons'.collected)][1]
            in_root == IF env'["ROOT_IS_PURELIB"] THEN <<"p","u","r","e","l","i","b">> ELSE <<"p","l","a","t","l","i","b">>
            data == env'["WHEEL_PATH"] \o <<"/">> \o env'["PACKAGE_NAME_SAFE"] \o <<"-">>
                    \o env'["PACKAGE_VERSION"] \o <<".","d","a","t","a","/">> \o call.category
            relative == IF call.root = <<>> THEN call.source
                        ELSE From(call.source, Len(call.root) + 2)
        IN  /\ target = (IF call.category = in_root THEN env'["WHEEL_PATH"] ELSE data)
                        \o <<"/">> \o relative
            /\ \E i \in DOMAIN scons'.builders :
                scons'.builders[i] = [target |-> target, action |-> "InstallAs", source |-> call.source]
    ]_vars

\* in a build that is not purelib, a platlib member given with the root src
\* is declared at the wheel root and a purelib member under the data directory
C15_Witness ==
    /\ "ROOT_IS_PURELIB" \in DOMAIN env /\ ~env["ROOT_IS_PURELIB"]
    /\ \E i, j \in DOMAIN scons.builders :
        /\ scons.builders[i] = [target |-> <<"b","u","i","l","d","/","w","h","e","e","l","/","b",",","c",".","p","y">>, action |-> "InstallAs",
                                source |-> <<"s","r","c","/","b",",","c",".","p","y">>]
        /\ scons.builders[j] = [target |-> <<"b","u","i","l","d","/","w","h","e","e","l","/","s","a","m","p","l","e","-","0",".","1",".","d","a","t","a","/","p","u","r","e","l","i","b","/","a",".","p","y">>,
                                action |-> "InstallAs", source |-> <<"a",".","p","y">>]
    /\ Len(scons.collected) = 2

(***************************************************************************)
(* Properties of enscons_defaults (under Spec)                             *)
(***************************************************************************)
\* the keys enscons_defaults is to leave defined
DefaultsKeys ==
    {"ROOT_IS_PURELIB", "WHEEL_TAG", "PACKAGE_NAME", "PACKAGE_NAME_SAFE", "PACKAGE_VERSION",
     "EGG_INFO_PATH"}

\* C16: a call of enscons_defaults that returns leaves all of its keys
\* defined, also when it follows a call that raised, and a call on an env
\* an earlier call has initialised leaves env as it is
C16_DefaultsAllOrNothing ==
    [][(Calling("enscons_defaults") /\ last'.ok) =>
        /\ DefaultsKeys \subseteq DOMAIN env'
        /\ ("_ENSCONS_DEFAULTS" \in DOMAIN env /\ DefaultsKeys \subseteq DOMAIN env) => env' = env
    ]_vars

(***************************************************************************)
(* Properties of the tag across a build (under Spec)                       *)
(***************************************************************************)
\* C17: once WHEEL is written or the wheel renamed, the tag get_tag resolved
\* is the Tag of WHEEL, the tag in WHEEL_FILE and in the name of the
\* editable archive as init_wheel made them, and the tag in the name of the
\* renamed wheel
C17_OneTagEverywhere ==
    (last.op \in {"wheelmeta_builder", "correct_wheel_tags"} /\ last.ok) =>
        LET tag == env["WHEEL_TAG"]
            named(prefix) == PathJoin(env["WHEEL_DIR"],
                                env["PACKAGE_NAME_SAFE"] \o <<"-">> \o env["PACKAGE_VERSION"] \o <<"-">>
                                \o prefix \o tag \o <<".","w","h","l">>)
        IN  /\ EndsWith(files[PathJoin(env["DIST_INFO_PATH"], <<"W","H","E","E","L">>)], <<"\n","T","a","g",":"," ">> \o tag \o <<"\n">>)
            /\ env["WHEEL_FILE"] = named(<<>>)
            /\ named(<<"e","d",".">>) \in DOMAIN scons.zips
            /\ last.op = "correct_wheel_tags" => named(<<>>) \in DOMAIN archives
====
